---- MODULE Spec2Model ----
(***************************************************************************)
(* etl::delegate_service (include/etl/delegate_service.h).                 *)
(*                                                                         *)
(* Two class templates are modelled:                                       *)
(*   - delegate_service<Range, Offset, Delegates>  ("static" variant): a   *)
(*     stateless view over an external array of Range + 1 delegates;       *)
(*   - delegate_service<Range, Offset, nullptr>    ("owned" variant): a    *)
(*     table of Range delegates plus the 'unhandled' delegate.             *)
(*                                                                         *)
(* The owned variant declares no copy operations, so the implicit copy     *)
(* constructor and copy assignment exist; they copy the members, and a     *)
(* copied default delegate stays bound to the object it was created in.    *)
(* The model therefore holds two objects of the same owned type.           *)
(*                                                                         *)
(* size_t is modelled as a W-bit unsigned integer; Offset + Range and      *)
(* id - Offset are computed modulo 2^W as the compiler computes them.      *)
(* A delegate is modelled by its identity: a user handler, the null        *)
(* (default constructed, !is_valid()) delegate, or the default delegate of *)
(* one object, bound to that object's delegate_service::unhandled.         *)
(***************************************************************************)
EXTENDS Integers, Sequences, FiniteSets

\* ------------------------------------------------------------------ bounds
\* Width of size_t in the model.
W == 2
\* Largest template argument Range explored.
MaxRange == 2

Modulus == 2 ^ W
Ids == 0 .. (Modulus - 1)

\* The objects of the owned type.
Tables == {"a", "b"}

\* ------------------------------------------------------------- delegates
\* User supplied valid delegates.
Handlers == {"h1", "h2"}
\* A default constructed etl::delegate (is_valid() == false).
Null == "null"
\* The delegate created in the constructor of object t, bound to
\* t.unhandled.
DefaultOf(t) == IF t = "a" THEN "default_a" ELSE "default_b"
DefaultDelegates == {DefaultOf(t) : t \in Tables}
\* The object a default delegate is bound to.
BoundTo(d) == CHOOSE t \in Tables : DefaultOf(t) = d
\* What a caller can pass as a callback.
Callbacks == Handlers \cup {Null}
\* Every delegate value a slot of memory may hold.
AllDelegates == Handlers \cup {Null} \cup DefaultDelegates

\* Ghost values.
NoReg == "none"
NoId == 0 - 1

VARIABLES
  variant,             \* "owned" (Delegates == nullptr) or "static"
  Range,               \* template argument Range
  Offset,              \* template argument Offset
  Delegates,           \* static variant: the external array, Range + 1 long
  life,                \* per object: "none", "alive" or "dead"
  lookup,              \* per object: etl::array<delegate, Range>
  unhandled_delegate,  \* per object: the delegate for unhandled ids
  invoked,             \* user delegates invoked by the last operation
  accessed,            \* array indices accessed by the last operation
  result,              \* "ok", or "fault" when undefined behaviour crashed
  op,                  \* the last operation: object, name, id, callback
  lastReg              \* ghost: per object and slot, the callback registered
                       \* last (a copy takes over the source's history)

vars == <<variant, Range, Offset, Delegates, life, lookup, unhandled_delegate,
          invoked, accessed, result, op, lastReg>>

config == <<variant, Range, Offset, Delegates>>
ghost == <<lastReg>>

\* ------------------------------------------------------------ collaborators
\* etl::delegate::is_valid
is_valid(d) == d # Null

\* etl::array::operator[] read.  An index outside the array reads whatever
\* memory holds there.
ReadSlot(tbl, i) == IF i \in DOMAIN tbl THEN {tbl[i]} ELSE AllDelegates

\* etl::array::operator[] write.  A write outside the array does not change
\* the array.
StoreSlot(tbl, i, cb) ==
  IF i \in DOMAIN tbl THEN [tbl EXCEPT ![i] = cb] ELSE tbl

\* Variant of InRange whose upper comparison is inclusive.
InRange_Inclusive(id) ==
  (id >= Offset) /\ (id <= ((Offset + Range) % Modulus))

\* The range test of the runtime call and register_delegate:
\*   (id >= Offset) && (id < (Offset + Range))
InRange(id) == (id >= Offset) /\ (id < ((Offset + Range) % Modulus))

\* The two ETL_STATIC_ASSERTs of the compile time forms.
StaticAssertId(Id) == (Id < ((Offset + Range) % Modulus)) /\ (Id >= Offset)

\* id - Offset in size_t arithmetic.
Index(id) == (id - Offset + Modulus) % Modulus

\* Variant of unhandled that never forwards to the unhandled delegate.
unhandled_NoForward(t, id) == << >>

\* delegate_service<Range, Offset, nullptr>::unhandled, run on object t.
unhandled(t, id) ==
  IF is_valid(unhandled_delegate[t])
    THEN << <<unhandled_delegate[t], id>> >>
    ELSE << >>

\* A default delegate whose object was destroyed is a dangling reference:
\* the call crashes, does nothing, or runs a handler found in the stale
\* memory.
DanglingOutcomes(id) ==
  {[invoked |-> c, result |-> r] :
     c \in {<< >>} \cup {<< <<h, id>> >> : h \in Handlers},
     r \in {"ok", "fault"}}

\* etl::delegate::operator() applied to delegate d with argument id: the
\* user delegates invoked and the outcome.  Invoking a null delegate is
\* undefined: the program either crashes or carries on.
InvokeOutcomes(d, id) ==
  IF d \in DefaultDelegates
    THEN IF life[BoundTo(d)] = "alive"
           THEN {[invoked |-> unhandled(BoundTo(d), id), result |-> "ok"]}
           ELSE DanglingOutcomes(id)
    ELSE IF is_valid(d)
      THEN {[invoked |-> << <<d, id>> >>, result |-> "ok"]}
      ELSE {[invoked |-> << <<d, id>> >>, result |-> r] : r \in {"ok", "fault"}}

\* Outcomes of tbl[i](id).
SlotCallOutcomes(tbl, i, id) ==
  {[invoked |-> o.invoked, accessed |-> {i}, result |-> o.result] :
     o \in UNION {InvokeOutcomes(d, id) : d \in ReadSlot(tbl, i)}}

\* ------------------------------------------------------------ construction
\* Variant of the constructor that leaves the slots default constructed.
ConstructLookup_Null(t, r) == [i \in 0 .. (r - 1) |-> Null]

\* lookup.fill(default_delegate) in the constructor of object t.
ConstructLookup(t, r) == [i \in 0 .. (r - 1) |-> DefaultOf(t)]

\* The members of an object that does not exist.
NoLookup == [i \in {} |-> Null]
NoGhostSlots(r) == [i \in 0 .. (r - 1) |-> NoReg]
NoOp == [t |-> "a", name |-> "construct", id |-> NoId, h |-> NoReg]

\* Object a is default constructed; object b does not exist yet.
InitOwned ==
  /\ variant = "owned"
  /\ Range \in 1 .. MaxRange
  /\ Offset \in Ids
  /\ Delegates = NoLookup
  /\ life = [t \in Tables |-> IF t = "a" THEN "alive" ELSE "none"]
  /\ lookup = [t \in Tables |->
                 IF t = "a" THEN ConstructLookup(t, Range) ELSE NoLookup]
  /\ lastReg = [t \in Tables |->
                  IF t = "a" THEN NoGhostSlots(Range) ELSE NoLookup]

InitStatic ==
  /\ variant = "static"
  /\ Range \in 1 .. MaxRange
  /\ Offset \in Ids
  /\ Delegates \in [0 .. Range -> Callbacks]
  /\ life = [t \in Tables |-> "none"]
  /\ lookup = [t \in Tables |-> NoLookup]
  /\ lastReg = [t \in Tables |-> NoLookup]

Init ==
  /\ (InitOwned \/ InitStatic)
  /\ unhandled_delegate = [t \in Tables |-> Null]
  /\ invoked = << >>
  /\ accessed = {}
  /\ result = "ok"
  /\ op = NoOp

\* ------------------------------------------- owned variant: object lifetime
\* The effect of an operation that leaves object t with the given members.
Became(t, name, lk, ud, lr) ==
  /\ lookup' = [lookup EXCEPT ![t] = lk]
  /\ unhandled_delegate' = [unhandled_delegate EXCEPT ![t] = ud]
  /\ lastReg' = [lastReg EXCEPT ![t] = lr]
  /\ invoked' = << >>
  /\ accessed' = {}
  /\ op' = [t |-> t, name |-> name, id |-> NoId, h |-> NoReg]
  /\ UNCHANGED <<config, result>>

\* delegate_service(): a further object is default constructed.
Construct(t) ==
  /\ variant = "owned"
  /\ result = "ok"
  /\ life[t] = "none"
  /\ life' = [life EXCEPT ![t] = "alive"]
  /\ Became(t, "construct", ConstructLookup(t, Range), Null,
            NoGhostSlots(Range))

\* The implicit delegate_service(const delegate_service&) (and the move
\* form): memberwise copy of lookup and unhandled_delegate.
CopyConstruct(t, s) ==
  /\ variant = "owned"
  /\ result = "ok"
  /\ life[t] = "none"
  /\ life[s] = "alive"
  /\ life' = [life EXCEPT ![t] = "alive"]
  /\ Became(t, "copy_construct", lookup[s], unhandled_delegate[s],
            lastReg[s])

\* The implicit operator=(const delegate_service&) (and the move form):
\* memberwise assignment of lookup and unhandled_delegate.
CopyAssign(t, s) ==
  /\ variant = "owned"
  /\ result = "ok"
  /\ t # s
  /\ life[t] = "alive"
  /\ life[s] = "alive"
  /\ UNCHANGED life
  /\ Became(t, "copy_assign", lookup[s], unhandled_delegate[s],
            lastReg[s])

\* The implicit destructor: the lifetime of object t ends.
Destroy(t) ==
  /\ variant = "owned"
  /\ result = "ok"
  /\ life[t] = "alive"
  /\ life' = [life EXCEPT ![t] = "dead"]
  /\ Became(t, "destroy", NoLookup, Null, NoLookup)

\* ------------------------------------------------- owned variant: operations
\* Variant of register_delegate that keeps the first callback of a slot.
RegisterLookup_KeepFirst(t, id, cb) ==
  IF InRange(id) /\ lookup[t][Index(id)] \in DefaultDelegates
    THEN StoreSlot(lookup[t], Index(id), cb)
    ELSE lookup[t]

\* Variant of register_delegate that stores an out of range id in the last
\* slot.
RegisterLookup_Clamp(t, id, cb) ==
  IF InRange(id)
    THEN StoreSlot(lookup[t], Index(id), cb)
    ELSE StoreSlot(lookup[t], Range - 1, cb)

\* Variant of register_delegate that fills the table with the callback.
RegisterLookup_Fill(t, id, cb) ==
  IF InRange(id) THEN [i \in DOMAIN lookup[t] |-> cb] ELSE lookup[t]

\* The table of t after t.register_delegate(id, callback), runtime id.
RegisterLookup(t, id, cb) ==
  IF InRange(id) THEN StoreSlot(lookup[t], Index(id), cb) ELSE lookup[t]

\* The slots register_delegate(id, callback) accesses.
RegisterAccessed(id) == IF InRange(id) THEN {Index(id)} ELSE {}

\* The table of t after t.register_delegate<Id>(callback).
RegisterLookupCT(t, Id, cb) == StoreSlot(lookup[t], Index(Id), cb)

\* Ghost bookkeeping of a registration that reached the given slots of t.
GhostRegistered(t, slots, cb) ==
  /\ lastReg' = [lastReg EXCEPT ![t] =
                   [i \in DOMAIN lastReg[t] |->
                      IF i \in slots THEN cb ELSE lastReg[t][i]]]

\* template <const size_t Id> void register_delegate(delegate callback)
RegisterDelegateCT(t, Id, cb) ==
  /\ variant = "owned"
  /\ result = "ok"
  /\ life[t] = "alive"
  /\ StaticAssertId(Id)
  /\ lookup' = [lookup EXCEPT ![t] = RegisterLookupCT(t, Id, cb)]
  /\ accessed' = {Index(Id)}
  /\ invoked' = << >>
  /\ op' = [t |-> t, name |-> "register_delegate_ct", id |-> Id, h |-> cb]
  /\ GhostRegistered(t, {Index(Id)}, cb)
  /\ UNCHANGED <<config, life, unhandled_delegate, result>>

\* void register_delegate(const size_t id, delegate callback)
RegisterDelegate(t, id, cb) ==
  /\ variant = "owned"
  /\ result = "ok"
  /\ life[t] = "alive"
  /\ lookup' = [lookup EXCEPT ![t] = RegisterLookup(t, id, cb)]
  /\ accessed' = RegisterAccessed(id)
  /\ invoked' = << >>
  /\ op' = [t |-> t, name |-> "register_delegate", id |-> id, h |-> cb]
  /\ GhostRegistered(t, RegisterAccessed(id), cb)
  /\ UNCHANGED <<config, life, unhandled_delegate, result>>

\* Variant of register_unhandled_delegate that ignores an invalid callback.
RegisterUnhandledDelegate_IgnoreInvalid(t, cb) ==
  /\ variant = "owned"
  /\ result = "ok"
  /\ life[t] = "alive"
  /\ unhandled_delegate' =
       [unhandled_delegate EXCEPT ![t] = IF is_valid(cb) THEN cb ELSE @]
  /\ accessed' = {}
  /\ invoked' = << >>
  /\ op' = [t |-> t, name |-> "register_unhandled_delegate", id |-> NoId,
            h |-> cb]
  /\ UNCHANGED <<config, life, lookup, result, lastReg>>

\* void register_unhandled_delegate(delegate callback)
RegisterUnhandledDelegate(t, cb) ==
  /\ variant = "owned"
  /\ result = "ok"
  /\ life[t] = "alive"
  /\ unhandled_delegate' = [unhandled_delegate EXCEPT ![t] = cb]
  /\ accessed' = {}
  /\ invoked' = << >>
  /\ op' = [t |-> t, name |-> "register_unhandled_delegate", id |-> NoId,
            h |-> cb]
  /\ UNCHANGED <<config, life, lookup, result, lastReg>>

\* Variant of call<Id>() that passes the index instead of the id.
CallCTOutcomes_IndexArg(t, Id) ==
  SlotCallOutcomes(lookup[t], Index(Id), Index(Id))

\* Outcomes of t.call<Id>(): lookup[Id - Offset](Id).
CallCTOutcomes(t, Id) == SlotCallOutcomes(lookup[t], Index(Id), Id)

\* Variant of call(id) without the is_valid check of the unhandled delegate.
CallOutcomes_NoGuard(t, id) ==
  IF InRange(id)
    THEN SlotCallOutcomes(lookup[t], Index(id), id)
    ELSE {[invoked |-> o.invoked, accessed |-> {}, result |-> o.result] :
            o \in InvokeOutcomes(unhandled_delegate[t], id)}

\* Outcomes of t.call(id), runtime id.
CallOutcomes(t, id) ==
  IF InRange(id)
    THEN SlotCallOutcomes(lookup[t], Index(id), id)
    ELSE {[invoked |-> IF is_valid(unhandled_delegate[t])
                         THEN << <<unhandled_delegate[t], id>> >>
                         ELSE << >>,
           accessed |-> {},
           result |-> "ok"]}

\* The effect of a call on object t whose outcome is o.
Called(t, name, id, o) ==
  /\ invoked' = o.invoked
  /\ accessed' = o.accessed
  /\ result' = o.result
  /\ op' = [t |-> t, name |-> name, id |-> id, h |-> NoReg]
  /\ UNCHANGED <<config, life, lookup, unhandled_delegate, ghost>>

\* template <const size_t Id> void call() const
CallCT(t, Id) ==
  /\ variant = "owned"
  /\ result = "ok"
  /\ life[t] = "alive"
  /\ StaticAssertId(Id)
  /\ \E o \in CallCTOutcomes(t, Id) : Called(t, "call_ct", Id, o)

\* void call(const size_t id) const
Call(t, id) ==
  /\ variant = "owned"
  /\ result = "ok"
  /\ life[t] = "alive"
  /\ \E o \in CallOutcomes(t, id) : Called(t, "call", id, o)

\* ------------------------------------------------ static variant: operations
\* Outcomes of call<Id>(): Delegates[Id - Offset](Id).
StaticCallCTOutcomes(Id) == SlotCallOutcomes(Delegates, Index(Id), Id)

\* Variant of the static call(id) that uses the last in range entry for an
\* out of range id.
StaticCallIndex_Clamp(id) == IF InRange(id) THEN Index(id) ELSE Range - 1

\* The index of Delegates the runtime call(id) uses.
StaticCallIndex(id) == IF InRange(id) THEN Index(id) ELSE Range

\* Outcomes of call(id), runtime id.
StaticCallOutcomes(id) == SlotCallOutcomes(Delegates, StaticCallIndex(id), id)

\* template <const size_t Id> void call() const
StaticCallCT(Id) ==
  /\ variant = "static"
  /\ result = "ok"
  /\ StaticAssertId(Id)
  /\ \E o \in StaticCallCTOutcomes(Id) : Called("a", "call_ct", Id, o)

\* void call(const size_t id) const
StaticCall(id) ==
  /\ variant = "static"
  /\ result = "ok"
  /\ \E o \in StaticCallOutcomes(id) : Called("a", "call", id, o)

\* ------------------------------------------------------------ specification
Next ==
  \/ \E t \in Tables : Construct(t)
  \/ \E t \in Tables, s \in Tables : CopyConstruct(t, s)
  \/ \E t \in Tables, s \in Tables : CopyAssign(t, s)
  \/ \E t \in Tables : Destroy(t)
  \/ \E t \in Tables, Id \in Ids, cb \in Callbacks : RegisterDelegateCT(t, Id, cb)
  \/ \E t \in Tables, id \in Ids, cb \in Callbacks : RegisterDelegate(t, id, cb)
  \/ \E t \in Tables, cb \in Callbacks : RegisterUnhandledDelegate(t, cb)
  \/ \E t \in Tables, Id \in Ids : CallCT(t, Id)
  \/ \E t \in Tables, id \in Ids : Call(t, id)
  \/ \E Id \in Ids : StaticCallCT(Id)
  \/ \E id \in Ids : StaticCall(id)

Spec == Init /\ [][Next]_vars

\* ------------------------------------------------------------------- types
TypeOK ==
  /\ variant \in {"owned", "static"}
  /\ Range \in 1 .. MaxRange
  /\ Offset \in Ids
  /\ result \in {"ok", "fault"}
  /\ \A t \in Tables :
       /\ life[t] \in {"none", "alive", "dead"}
       /\ unhandled_delegate[t] \in Callbacks
       /\ \A i \in DOMAIN lookup[t] : lookup[t][i] \in AllDelegates
       /\ life[t] = "alive" => DOMAIN lookup[t] = 0 .. (Range - 1)
  /\ variant = "static" => DOMAIN Delegates = 0 .. Range

\* ------------------------------------------------------------------ claims
HandlersOf(calls) == [k \in 1 .. Len(calls) |-> calls[k][1]]
ArgsOf(calls) == {calls[k][2] : k \in 1 .. Len(calls)}
LastOutcome == [invoked |-> invoked, accessed |-> accessed, result |-> result]
\* What a guarded call of the unhandled delegate d with argument id invokes.
Guarded(d, id) == IF is_valid(d) THEN << <<d, id>> >> ELSE << >>

\* C1: owned variant.  When the last operation is call(id) with id in range
\* and the most recent registration for id passed the valid handler h, the
\* call invoked exactly h, exactly once, with argument id, and nothing else
\* (neither an earlier handler of that id nor the unhandled delegate).
C1_LastWriteWins ==
  (variant = "owned" /\ op.name = "call" /\ InRange(op.id)
     /\ lastReg[op.t][Index(op.id)] \in Handlers)
    => /\ invoked = << <<lastReg[op.t][Index(op.id)], op.id>> >>
       /\ result = "ok"

C1_Witness ==
  /\ variant = "owned" /\ op.name = "call" /\ InRange(op.id) /\ Offset > 0
  /\ op.t = "b"
  /\ life["a"] = "alive"
  /\ lastReg["b"][Index(op.id)] = "h2"
  /\ lastReg["a"][Index(op.id)] = "h1"
  /\ unhandled_delegate["b"] = "h1"
  /\ invoked = << <<"h2", op.id>> >>

\* C2: owned variant.  call(id) with id out of range accesses no slot, makes
\* no error outcome, and invokes the unhandled delegate exactly once with id
\* when it is valid and nothing when it is invalid.
C2_OutOfRangeCall ==
  [][(variant = "owned" /\ op'.name = "call" /\ ~InRange(op'.id))
       => /\ accessed' = {}
          /\ result' = "ok"
          /\ invoked' = Guarded(unhandled_delegate[op'.t], op'.id)]_vars

C2_Witness ==
  /\ variant = "owned" /\ op.name = "call" /\ ~InRange(op.id)
  /\ unhandled_delegate[op.t] = Null
  /\ \E i \in DOMAIN lookup[op.t] : lookup[op.t][i] \in Handlers
  /\ invoked = << >>

\* C3: owned variant.  call(id) on an in range id whose slot was never
\* registered has the effect a call on an out of range id has in the same
\* table state: the current unhandled delegate is invoked once with the
\* called id when valid, nothing is invoked when invalid.  Stated for the
\* runs in which no object has been destroyed, so that no dangling delegate
\* is involved.
C3_UnregisteredLikeOutOfRange ==
  [][(variant = "owned" /\ op'.name = "call" /\ InRange(op'.id)
        /\ (\A t \in Tables : life[t] # "dead")
        /\ lastReg[op'.t][Index(op'.id)] = NoReg)
       => /\ invoked' = Guarded(unhandled_delegate[op'.t], op'.id)
          /\ \A x \in Ids : ~InRange(x) =>
               \E o \in CallOutcomes(op'.t, x) :
                 /\ HandlersOf(o.invoked) = HandlersOf(invoked')
                 /\ ArgsOf(o.invoked) \subseteq {x}
                 /\ o.result = result']_vars

\* C4: static variant.  call(id) invokes Delegates[id - Offset] with id when
\* id is in range and Delegates[Range] with id otherwise, with no validity
\* check; exactly one delegate is invoked per call.
C4_StaticCall ==
  (variant = "static" /\ op.name = "call")
    => LET i == IF InRange(op.id) THEN Index(op.id) ELSE Range
       IN /\ accessed = {i}
          /\ invoked = << <<Delegates[i], op.id>> >>

C4_Witness ==
  /\ variant = "static" /\ op.name = "call"
  /\ op.id > Offset + Range + 1
  /\ Delegates[Range] \in Handlers
  /\ Delegates[0] # Delegates[Range]
  /\ invoked = << <<Delegates[Range], op.id>> >>

\* C5: owned variant.  register_delegate(id, h) with id out of range changes
\* no slot and not the unhandled delegate, and invokes nothing.
C5_OutOfRangeRegisterNoOp ==
  [][(variant = "owned" /\ op'.name = "register_delegate" /\ ~InRange(op'.id))
       => /\ lookup' = lookup
          /\ unhandled_delegate' = unhandled_delegate
          /\ invoked' = << >>
          /\ result' = "ok"]_vars

C5_Witness ==
  /\ variant = "owned" /\ op.name = "register_delegate" /\ ~InRange(op.id)
  /\ op.h \in Handlers
  /\ unhandled_delegate[op.t] # op.h
  /\ \A i \in DOMAIN lookup[op.t] : lookup[op.t][i] # op.h

\* C6: owned variant.  register_unhandled_delegate(f) makes f the unhandled
\* delegate, valid or not.  Every call on an out of range id or on a never
\* registered in range id invokes the unhandled delegate set last with the
\* called id when it is valid, and nothing when it is invalid.  Stated for
\* the runs in which no object has been destroyed, so that no dangling
\* delegate is involved.
C6_FallbackReplaced ==
  [][variant = "owned" =>
       /\ op'.name = "register_unhandled_delegate"
            => unhandled_delegate'[op'.t] = op'.h
       /\ (op'.name \in {"call", "call_ct"}
             /\ (\A t \in Tables : life[t] # "dead")
             /\ (~InRange(op'.id) \/ lastReg[op'.t][Index(op'.id)] = NoReg))
            => invoked' = Guarded(unhandled_delegate[op'.t], op'.id)]_vars

\* C7 as stated: owned variant, every slot holds a valid delegate in every
\* reachable state.
C7_AllSlotsValid ==
  \A t \in Tables :
    life[t] = "alive" => \A i \in DOMAIN lookup[t] : is_valid(lookup[t][i])

\* C7 amended: owned variant.  A live table always has Range slots; a slot
\* never registered holds a default delegate, a slot whose most recent
\* registration passed a valid handler holds that handler, and a slot is
\* invalid only when its most recent registration passed an invalid handler
\* (a copy takes over the slots and the registrations of its source).
C7_SlotsValidUnlessNullRegistered ==
  \A t \in Tables :
    life[t] = "alive" =>
      /\ DOMAIN lookup[t] = 0 .. (Range - 1)
      /\ \A i \in DOMAIN lookup[t] :
           /\ lastReg[t][i] = NoReg => lookup[t][i] \in DefaultDelegates
           /\ lastReg[t][i] \in Handlers => lookup[t][i] = lastReg[t][i]
           /\ is_valid(lookup[t][i]) \/ lastReg[t][i] = Null

C7_Witness ==
  /\ variant = "owned" /\ Range = 2
  /\ life["a"] = "alive"
  /\ life["b"] = "alive"
  /\ lookup["b"][0] = DefaultOf("b")
  /\ lookup["b"][1] = "h1"
  /\ lookup["a"][1] = Null
  /\ op.name = "register_delegate_ct"

\* C8: both variants.  For every Id the static assertions accept, call<Id>()
\* has the outcomes of the runtime call(Id): the delegate at index
\* Id - Offset is invoked with Id; an unregistered owned slot routes to the
\* unhandled delegate under the same validity guard in both forms.
C8_CompileTimeCallAgrees ==
  /\ \A Id \in Ids : StaticAssertId(Id) =>
       /\ \A t \in Tables : life[t] = "alive" =>
            CallCTOutcomes(t, Id) = CallOutcomes(t, Id)
       /\ variant = "static" => StaticCallCTOutcomes(Id) = StaticCallOutcomes(Id)
  /\ op.name = "call_ct" =>
       /\ accessed = {Index(op.id)}
       /\ ArgsOf(invoked) \subseteq {op.id}
       /\ variant = "owned" => LastOutcome \in CallOutcomes(op.t, op.id)
       /\ variant = "static" => LastOutcome \in StaticCallOutcomes(op.id)

C8_Witness ==
  /\ variant = "owned" /\ op.name = "call_ct" /\ Offset > 0
  /\ lookup[op.t][Index(op.id)] = DefaultOf(op.t)
  /\ is_valid(unhandled_delegate[op.t])
  /\ invoked = << <<unhandled_delegate[op.t], op.id>> >>

\* C9: owned variant, frame of each operation.  A registration with an in
\* range id changes only slot id - Offset; register_unhandled_delegate
\* changes no slot; call(id) and call<Id>() change neither a slot nor the
\* unhandled delegate.
C9_Frame ==
  [][variant = "owned" =>
       /\ (op'.name \in {"register_delegate", "register_delegate_ct"}
             /\ InRange(op'.id))
            => /\ \A j \in DOMAIN lookup[op'.t] :
                    j # Index(op'.id) => lookup'[op'.t][j] = lookup[op'.t][j]
               /\ DOMAIN lookup'[op'.t] = DOMAIN lookup[op'.t]
               /\ unhandled_delegate' = unhandled_delegate
       /\ op'.name = "register_unhandled_delegate" => lookup' = lookup
       /\ op'.name \in {"call", "call_ct"}
            => /\ lookup' = lookup
               /\ unhandled_delegate' = unhandled_delegate]_vars

C9_Witness ==
  /\ variant = "owned" /\ Range = 2
  /\ op.name = "register_delegate" /\ InRange(op.id)
  /\ lookup[op.t][Index(op.id)] = op.h
  /\ \E j \in DOMAIN lookup[op.t] :
       j # Index(op.id) /\ lookup[op.t][j] \in Handlers
         /\ lookup[op.t][j] # op.h
  /\ unhandled_delegate[op.t] \in Handlers

\* C10: both variants, W-bit arithmetic.  Every index the runtime call(id)
\* and register_delegate(id, h) access lies in [0, Range) in the owned
\* variant and in [0, Range] in the static variant, also when
\* Offset + Range wraps around.
C10_IndexInBounds ==
  op.name \in {"call", "register_delegate"} =>
    \A i \in accessed :
      /\ i >= 0
      /\ variant = "owned" => i < Range
      /\ variant = "static" => i <= Range

C10_Witness ==
  /\ variant = "static" /\ op.name = "call"
  /\ Offset + Range > Modulus
  /\ op.id >= Offset
  /\ accessed = {Range}

====
